---- MODULE Spec2Model ----
(***************************************************************************)
(* Reversi (ESiegman/Reversi): the bitboard move engine of game.cpp, the   *)
(* coordinate conversion of board.cpp, the minimax search of opponent.cpp  *)
(* and the turn loop Game::run.                                            *)
(*                                                                         *)
(* A uint64_t mask is modelled by the set of its set bit indices (0..63):  *)
(* `m & (1ULL << i)` is `i \in m`, `m |= 1ULL << i` is `m \cup {i}`,        *)
(* `m &= ~(1ULL << i)` is `m \ {i}`, popcount is Cardinality.  A           *)
(* std::pair<int,int> is a 2-tuple <<first, second>>, a std::string is the *)
(* sequence of its character codes.                                        *)
(***************************************************************************)
EXTENDS Integers, Sequences, FiniteSets, TLC

VARIABLES white, black, first, choice, pc, nmoves, call, ret

vars == <<white, black, first, choice, pc, nmoves, call, ret>>

(***************************************************************************)
(* consts.hpp and <climits>                                                *)
(***************************************************************************)
BOARD_LENGTH == 8

DIRECTIONS ==
    << <<-1, -1>>, <<-1, 0>>, <<-1, 1>>,
       << 0, -1>>,            << 0, 1>>,
       << 1, -1>>, << 1, 0>>, << 1, 1>> >>

MAX_DEPTH == 10

CORNER_WEIGHT == 10

SIDE_WEIGHT == 5

INT_MAX == 2147483647

INT_MIN == (-INT_MAX) - 1

(***************************************************************************)
(* Bounds of the model.                                                    *)
(***************************************************************************)
\* Discs placed on the test boards the pure functions are applied to.
MaxDiscs == 3

\* Largest depth minimax is called with on a test board (SpecSearch).
DepthBound == 2

\* Discs placed on the small test boards of the search (SpecSearch).
SearchDiscs == 2

\* Depth of the computer's search in a game.  Game::run passes MAX_DEPTH; the
\* model searches to Min(MAX_DEPTH, GameDepth).
GameDepth == 1

\* Moves applied in one game of Game::run.
MaxMoves == 10

\* Longest malformed coordinate string given to stringToBoardPosition.
MaxLen == 3

\* Directions that carry discs on a test board of SpecFlip.
MaxRays == 3

\* Largest side offset whose four cells are filled in every way (SpecEval).
MaxOffset == 2

\* In a game played to its end (SpecLive) the human answers each of the first
\* BranchMoves prompts with one of the first LiveChoices legal moves, and every
\* later prompt with the first legal move.
LiveChoices == 2

BranchMoves == 1

Players == {"W", "B"}

Rows == 0 .. (BOARD_LENGTH - 1)

Positions == Rows \X Rows

NoMove == <<-1, -1>>

Max(a, b) == IF a >= b THEN a ELSE b

Min(a, b) == IF a <= b THEN a ELSE b

(***************************************************************************)
(* board.cpp                                                               *)
(***************************************************************************)
\* Character codes (ASCII) of the characters the conversions compare with
\* and add.
Letter ==
    [a |-> 97, b |-> 98, c |-> 99, d |-> 100, e |-> 101, f |-> 102, g |-> 103,
     h |-> 104, i |-> 105]

Digit == [d \in 0 .. 9 |-> 48 + d]

\* int to char: the value kept in 8 bits (char is signed on the targets of the
\* build; the values that occur are in 0..127, where signedness is moot).
ToChar(x) == ((x + 128) % 256) - 128

\* Mutant of stringToBoardPosition: the upper limit of the column is one
\* letter too far.
stringToBoardPosition_ColumnPastH(position) ==
    IF Len(position) # 2
    THEN [threw |-> "invalid_argument", pos |-> NoMove]
    ELSE LET column == position[1]
             row == position[2]
         IN  IF column < Letter.a \/ column > Letter.i
                \/ row < Digit[1] \/ row > Digit[8]
             THEN [threw |-> "out_of_range", pos |-> NoMove]
             ELSE [threw |-> "none", pos |-> <<row - Digit[1], column - Letter.a>>]

\* stringToBoardPosition(position): threw names the exception, if any.
stringToBoardPosition(position) ==
    IF Len(position) # 2
    THEN [threw |-> "invalid_argument", pos |-> NoMove]
    ELSE LET column == position[1]
             row == position[2]
         IN  IF column < Letter.a \/ column > Letter.h
                \/ row < Digit[1] \/ row > Digit[8]
             THEN [threw |-> "out_of_range", pos |-> NoMove]
             ELSE LET columnIndex == column - Letter.a
                      rowIndex == row - Digit[1]
                  IN  [threw |-> "none", pos |-> <<rowIndex, columnIndex>>]

\* Mutant of boardPositionToString: the row digit first, then the column letter.
boardPositionToString_RowFirst(position) ==
    <<ToChar(position[1] + Digit[1]), ToChar(position[2] + Letter.a)>>

\* boardPositionToString(position): the column letter, then the row digit.
boardPositionToString(position) ==
    LET column == ToChar(position[2] + Letter.a)
        row == ToChar(position[1] + Digit[1])
    IN  <<column, row>>

\* changeBitOnBoard(board, row, column, value): the board after the call;
\* threw names the exception, if any.
changeBitOnBoard(board, row, column, value) ==
    IF row < 0 \/ row >= BOARD_LENGTH \/ column < 0 \/ column >= BOARD_LENGTH
    THEN [threw |-> "out_of_range", board |-> board]
    ELSE LET index == row * BOARD_LENGTH + column
         IN  [threw |-> "none",
              board |-> IF value THEN board \cup {index} ELSE board \ {index}]

\* Mutant of setupInitialPos: the two colours on each other's squares.
setupInitialPos_ColoursSwapped(w, b) ==
    << changeBitOnBoard(changeBitOnBoard(w, 3, 4, TRUE).board, 4, 3, TRUE).board,
       changeBitOnBoard(changeBitOnBoard(b, 3, 3, TRUE).board, 4, 4, TRUE).board >>

\* setupInitialPos(&white, &black): <<white, black>> after the four calls.
setupInitialPos(w, b) ==
    << changeBitOnBoard(changeBitOnBoard(w, 3, 3, TRUE).board, 4, 4, TRUE).board,
       changeBitOnBoard(changeBitOnBoard(b, 3, 4, TRUE).board, 4, 3, TRUE).board >>

(***************************************************************************)
(* game.cpp: legality and move application                                 *)
(***************************************************************************)
InBoard(r, c) == r >= 0 /\ r < BOARD_LENGTH /\ c >= 0 /\ c < BOARD_LENGTH

\* Mutant of validWalk: a mover disc ends the walk with success whether or not
\* an opponent disc was passed.
RECURSIVE validWalk_NoOpponentNeeded(_, _, _, _, _, _, _)
validWalk_NoOpponentNeeded(playerBoard, opponentBoard, r, c, dRow, dCol, hasOpponentBetween) ==
    IF ~InBoard(r, c) THEN FALSE
    ELSE LET currentIndex == r * BOARD_LENGTH + c
         IN  IF currentIndex \in opponentBoard
             THEN validWalk_NoOpponentNeeded(playerBoard, opponentBoard,
                                             r + dRow, c + dCol, dRow, dCol, TRUE)
             ELSE currentIndex \in playerBoard

\* The while loop of checkValidMove for one direction, entered at (r, c).
RECURSIVE validWalk(_, _, _, _, _, _, _)
validWalk(playerBoard, opponentBoard, r, c, dRow, dCol, hasOpponentBetween) ==
    IF ~InBoard(r, c) THEN FALSE
    ELSE LET currentIndex == r * BOARD_LENGTH + c
         IN  IF currentIndex \in opponentBoard
             THEN validWalk(playerBoard, opponentBoard, r + dRow, c + dCol,
                            dRow, dCol, TRUE)
             ELSE IF currentIndex \in playerBoard
             THEN hasOpponentBetween
             ELSE FALSE

checkValidMove(w, b, boardPosition, player) ==
    LET playerBoard == IF player = "W" THEN w ELSE b
        opponentBoard == IF player = "W" THEN b ELSE w
        row == boardPosition[1]
        column == boardPosition[2]
        index == row * BOARD_LENGTH + column
    IN  IF index \in playerBoard \/ index \in opponentBoard
        THEN FALSE
        ELSE \E i \in 1 .. Len(DIRECTIONS) :
                validWalk(playerBoard, opponentBoard,
                          row + DIRECTIONS[i][1], column + DIRECTIONS[i][2],
                          DIRECTIONS[i][1], DIRECTIONS[i][2], FALSE)

\* Mutant of flipWalk: a flipped disc is set in the mover's mask and not
\* cleared in the opponent's.
RECURSIVE flipWalk_KeepsOpponentBit(_, _, _, _, _, _, _, _)
flipWalk_KeepsOpponentBit(playerBoard, opponentBoard, r, c, dRow, dCol, hasOpponentBetween, toFlip) ==
    IF ~InBoard(r, c) THEN <<playerBoard, opponentBoard>>
    ELSE LET currentIndex == r * BOARD_LENGTH + c
         IN  IF currentIndex \in opponentBoard
             THEN flipWalk_KeepsOpponentBit(playerBoard, opponentBoard,
                                            r + dRow, c + dCol, dRow, dCol, TRUE,
                                            toFlip \cup {currentIndex})
             ELSE IF currentIndex \in playerBoard /\ hasOpponentBetween
             THEN <<playerBoard \cup toFlip, opponentBoard>>
             ELSE <<playerBoard, opponentBoard>>

\* Mutant of flipWalk: a run that reaches the edge of the board is flipped too.
RECURSIVE flipWalk_FlipsOpenRun(_, _, _, _, _, _, _, _)
flipWalk_FlipsOpenRun(playerBoard, opponentBoard, r, c, dRow, dCol, hasOpponentBetween, toFlip) ==
    IF ~InBoard(r, c)
    THEN <<playerBoard \cup toFlip, opponentBoard \ toFlip>>
    ELSE LET currentIndex == r * BOARD_LENGTH + c
         IN  IF currentIndex \in opponentBoard
             THEN flipWalk_FlipsOpenRun(playerBoard, opponentBoard,
                                        r + dRow, c + dCol, dRow, dCol, TRUE,
                                        toFlip \cup {currentIndex})
             ELSE IF currentIndex \in playerBoard /\ hasOpponentBetween
             THEN <<playerBoard \cup toFlip, opponentBoard \ toFlip>>
             ELSE <<playerBoard, opponentBoard>>

\* Mutant of flipWalk: the flipped discs are cleared from the opponent's mask
\* and not set in the mover's.
RECURSIVE flipWalk_DropsFlipped(_, _, _, _, _, _, _, _)
flipWalk_DropsFlipped(playerBoard, opponentBoard, r, c, dRow, dCol, hasOpponentBetween, toFlip) ==
    IF ~InBoard(r, c) THEN <<playerBoard, opponentBoard>>
    ELSE LET currentIndex == r * BOARD_LENGTH + c
         IN  IF currentIndex \in opponentBoard
             THEN flipWalk_DropsFlipped(playerBoard, opponentBoard, r + dRow, c + dCol,
                                        dRow, dCol, TRUE, toFlip \cup {currentIndex})
             ELSE IF currentIndex \in playerBoard
             THEN IF hasOpponentBetween
                  THEN <<playerBoard, opponentBoard \ toFlip>>
                  ELSE <<playerBoard, opponentBoard>>
             ELSE <<playerBoard, opponentBoard>>

\* The while loop of applyMove for one direction: the two boards after it.
RECURSIVE flipWalk(_, _, _, _, _, _, _, _)
flipWalk(playerBoard, opponentBoard, r, c, dRow, dCol, hasOpponentBetween, toFlip) ==
    IF ~InBoard(r, c) THEN <<playerBoard, opponentBoard>>
    ELSE LET currentIndex == r * BOARD_LENGTH + c
         IN  IF currentIndex \in opponentBoard
             THEN flipWalk(playerBoard, opponentBoard, r + dRow, c + dCol,
                           dRow, dCol, TRUE, toFlip \cup {currentIndex})
             ELSE IF currentIndex \in playerBoard
             THEN IF hasOpponentBetween
                  THEN <<playerBoard \cup toFlip, opponentBoard \ toFlip>>
                  ELSE <<playerBoard, opponentBoard>>
             ELSE <<playerBoard, opponentBoard>>

\* Mutant of flipDirections: toFlip is declared outside the loop over the
\* directions and never cleared, so a direction that finds a mover disc also
\* flips what earlier directions collected.  The walk of the mutant returns
\* toFlip as a third component.
RECURSIVE flipDirections_KeepsToFlip_Walk(_, _, _, _, _, _, _, _)
flipDirections_KeepsToFlip_Walk(playerBoard, opponentBoard, r, c, dRow, dCol, hasOpponentBetween, toFlip) ==
    IF ~InBoard(r, c) THEN <<playerBoard, opponentBoard, toFlip>>
    ELSE LET currentIndex == r * BOARD_LENGTH + c
         IN  IF currentIndex \in opponentBoard
             THEN flipDirections_KeepsToFlip_Walk(playerBoard, opponentBoard,
                                                  r + dRow, c + dCol, dRow, dCol, TRUE,
                                                  toFlip \cup {currentIndex})
             ELSE IF currentIndex \in playerBoard /\ hasOpponentBetween
             THEN <<playerBoard \cup toFlip, opponentBoard \ toFlip, toFlip>>
             ELSE <<playerBoard, opponentBoard, toFlip>>

RECURSIVE flipDirections_KeepsToFlip_Loop(_, _, _, _, _, _)
flipDirections_KeepsToFlip_Loop(playerBoard, opponentBoard, row, column, i, toFlip) ==
    IF i > Len(DIRECTIONS) THEN <<playerBoard, opponentBoard>>
    ELSE LET after == flipDirections_KeepsToFlip_Walk(
                          playerBoard, opponentBoard,
                          row + DIRECTIONS[i][1], column + DIRECTIONS[i][2],
                          DIRECTIONS[i][1], DIRECTIONS[i][2], FALSE, toFlip)
         IN  flipDirections_KeepsToFlip_Loop(after[1], after[2], row, column,
                                             i + 1, after[3])

flipDirections_KeepsToFlip(playerBoard, opponentBoard, row, column, i) ==
    flipDirections_KeepsToFlip_Loop(playerBoard, opponentBoard, row, column, i, {})

\* The for loop of applyMove over DIRECTIONS[i..8], each direction walking the
\* boards the earlier ones left.  The boards a direction leaves are bound as
\* values (after), as playerBoard and opponentBoard are locals of applyMove.
RECURSIVE flipDirections(_, _, _, _, _)
flipDirections(playerBoard, opponentBoard, row, column, i) ==
    IF i > Len(DIRECTIONS) THEN <<playerBoard, opponentBoard>>
    ELSE CHOOSE result \in
            { flipDirections(after[1], after[2], row, column, i + 1) :
                after \in { flipWalk(playerBoard, opponentBoard,
                                     row + DIRECTIONS[i][1], column + DIRECTIONS[i][2],
                                     DIRECTIONS[i][1], DIRECTIONS[i][2], FALSE, {}) } } : TRUE

\* applyMove(white, black, boardPosition, player): <<white, black>> after it.
applyMove(w, b, boardPosition, player) ==
    LET playerBoard == IF player = "W" THEN w ELSE b
        opponentBoard == IF player = "W" THEN b ELSE w
        row == boardPosition[1]
        column == boardPosition[2]
        index == row * BOARD_LENGTH + column
        after == flipDirections(playerBoard \cup {index}, opponentBoard,
                                row, column, 1)
    IN  IF player = "W" THEN <<after[1], after[2]>> ELSE <<after[2], after[1]>>

hasValidMoves(w, b, player) ==
    \E row \in Rows : \E col \in Rows : checkValidMove(w, b, <<row, col>>, player)

\* Mutant of getScore: the two counts in each other's place.
getScore_CountsSwapped(w, b) == <<Cardinality(b), Cardinality(w)>>

getScore(w, b) == <<Cardinality(w), Cardinality(b)>>

(***************************************************************************)
(* opponent.cpp: the search                                                *)
(***************************************************************************)
opponent(player) == IF player = "W" THEN "B" ELSE "W"

\* The 64 squares in the order of the two nested loops: row 0 columns 0..7,
\* then row 1, ...
ScanOrder ==
    [k \in 1 .. (BOARD_LENGTH * BOARD_LENGTH) |->
        <<(k - 1) \div BOARD_LENGTH, (k - 1) % BOARD_LENGTH>>]

getPossibleMoves(w, b, player) ==
    SelectSeq(ScanOrder, LAMBDA boardPosition : checkValidMove(w, b, boardPosition, player))

\* Mutant of IntDiv: the quotient rounded down.
IntDiv_RoundsDown(x, y) == x \div y

\* int / int of C++: the quotient rounded toward zero.
IntDiv(x, y) == IF x >= 0 THEN x \div y ELSE -((-x) \div y)

\* Mutant of evaluateBoard: sideControl counts every side cell on its own.
evaluateBoard_SidesPerCell(w, b, player) ==
    LET score == getScore(w, b)
        playerScore == IF player = "W" THEN score[1] ELSE score[2]
        opponentScore == IF player = "W" THEN score[2] ELSE score[1]
        mine == IF player = "W" THEN w ELSE b
        theirs == IF player = "W" THEN b ELSE w
        corners == { 0, BOARD_LENGTH - 1, (BOARD_LENGTH - 1) * BOARD_LENGTH,
                     (BOARD_LENGTH - 1) * BOARD_LENGTH + BOARD_LENGTH - 1 }
        cornerControl == CORNER_WEIGHT * Cardinality(corners \cap mine)
                         - CORNER_WEIGHT * Cardinality(corners \cap theirs)
        sides == UNION { { i, (BOARD_LENGTH - 1) * BOARD_LENGTH + i, i * BOARD_LENGTH,
                           i * BOARD_LENGTH + (BOARD_LENGTH - 1) } :
                         i \in 1 .. (BOARD_LENGTH - 2) }
        sideControl == SIDE_WEIGHT * Cardinality(sides \cap mine)
                       - SIDE_WEIGHT * Cardinality(sides \cap theirs)
        playerMoves == Len(getPossibleMoves(w, b, player))
        opponentMoves == Len(getPossibleMoves(w, b, opponent(player)))
        mobility == IntDiv(playerMoves - opponentMoves, 5)
    IN  playerScore - opponentScore + cornerControl + sideControl + mobility

evaluateBoard(w, b, player) ==
    LET score == getScore(w, b)
        playerScore == IF player = "W" THEN score[1] ELSE score[2]
        opponentScore == IF player = "W" THEN score[2] ELSE score[1]
        mine == IF player = "W" THEN w ELSE b
        theirs == IF player = "W" THEN b ELSE w
        corners == << <<0, 0>>, <<0, BOARD_LENGTH - 1>>, <<BOARD_LENGTH - 1, 0>>,
                      <<BOARD_LENGTH - 1, BOARD_LENGTH - 1>> >>
        cornerTerm(k) ==
            LET bitPosition == corners[k][1] * BOARD_LENGTH + corners[k][2]
            IN  IF bitPosition \in mine THEN CORNER_WEIGHT
                ELSE IF bitPosition \in theirs THEN -CORNER_WEIGHT
                ELSE 0
        cornerControl == cornerTerm(1) + cornerTerm(2) + cornerTerm(3) + cornerTerm(4)
        sideTerm(i) ==
            LET topBit == i
                bottomBit == (BOARD_LENGTH - 1) * BOARD_LENGTH + i
                leftBit == i * BOARD_LENGTH
                rightBit == i * BOARD_LENGTH + (BOARD_LENGTH - 1)
            IN  IF topBit \in mine \/ leftBit \in mine
                   \/ bottomBit \in mine \/ rightBit \in mine
                THEN SIDE_WEIGHT
                ELSE IF topBit \in theirs \/ leftBit \in theirs
                        \/ bottomBit \in theirs \/ rightBit \in theirs
                THEN -SIDE_WEIGHT
                ELSE 0
        sideSum[i \in 0 .. (BOARD_LENGTH - 2)] ==
            IF i = 0 THEN 0 ELSE sideSum[i - 1] + sideTerm(i)
        sideControl == sideSum[BOARD_LENGTH - 2]
        playerMoves == Len(getPossibleMoves(w, b, player))
        opponentMoves == Len(getPossibleMoves(w, b, opponent(player)))
        mobility == IntDiv(playerMoves - opponentMoves, 5)
    IN  playerScore - opponentScore + cornerControl + sideControl + mobility

\* minimax returns <score, move>; nodes counts the calls of minimax made to
\* compute it (this one included), which the program does not keep.
RECURSIVE minimax(_, _, _, _, _, _, _)
RECURSIVE searchMoves(_, _, _, _, _, _, _, _, _, _, _, _)

\* Mutant of searchMoves: the comparison of the cut-off is turned around, so
\* that the loop is left while the window is still open.
searchMoves_CutWhenWindowOpen(w, b, player, depth, isMaximizing, alpha, beta, moves, k, best, bestMove, nodes) ==
    IF k > Len(moves)
    THEN [score |-> best, move |-> bestMove, nodes |-> nodes]
    ELSE LET move == moves[k]
             new == applyMove(w, b, move, player)
             child == minimax(new[1], new[2], opponent(player), depth - 1,
                              ~isMaximizing, alpha, beta)
             eval == child.score
             improves == IF isMaximizing THEN eval > best ELSE eval < best
             newBest == IF improves THEN eval ELSE best
             newMove == IF improves THEN move ELSE bestMove
             newAlpha == IF isMaximizing THEN Max(alpha, eval) ELSE alpha
             newBeta == IF isMaximizing THEN beta ELSE Min(beta, eval)
         IN  IF newAlpha <= newBeta
             THEN [score |-> newBest, move |-> newMove, nodes |-> nodes + child.nodes]
             ELSE searchMoves(w, b, player, depth, isMaximizing, newAlpha, newBeta,
                              moves, k + 1, newBest, newMove, nodes + child.nodes)

\* Mutant of searchMoves: the comparisons with maxEval and minEval are not
\* strict, so a later move with an equal score replaces the earlier one.
searchMoves_LaterTieWins(w, b, player, depth, isMaximizing, alpha, beta, moves, k, best, bestMove, nodes) ==
    IF k > Len(moves)
    THEN [score |-> best, move |-> bestMove, nodes |-> nodes]
    ELSE LET move == moves[k]
             new == applyMove(w, b, move, player)
             child == minimax(new[1], new[2], opponent(player), depth - 1,
                              ~isMaximizing, alpha, beta)
             eval == child.score
             improves == IF isMaximizing THEN eval >= best ELSE eval <= best
             newBest == IF improves THEN eval ELSE best
             newMove == IF improves THEN move ELSE bestMove
             newAlpha == IF isMaximizing THEN Max(alpha, eval) ELSE alpha
             newBeta == IF isMaximizing THEN beta ELSE Min(beta, eval)
         IN  IF newBeta <= newAlpha
             THEN [score |-> newBest, move |-> newMove, nodes |-> nodes + child.nodes]
             ELSE searchMoves(w, b, player, depth, isMaximizing, newAlpha, newBeta,
                              moves, k + 1, newBest, newMove, nodes + child.nodes)

\* The for loop over getPossibleMoves from its k-th move on; best is maxEval
\* (minEval), bestMove and nodes what the earlier moves left.  The boards after
\* the move (new), the recursive call's result (child) and the updated locals
\* (v) are bound as values, as the C++ computes each of them once.
searchMoves(w, b, player, depth, isMaximizing, alpha, beta, moves, k, best, bestMove, nodes) ==
    IF k > Len(moves)
    THEN [score |-> best, move |-> bestMove, nodes |-> nodes]
    ELSE CHOOSE result \in
            { LET move == moves[k]
                  eval == child.score
                  improves == IF isMaximizing THEN eval > best ELSE eval < best
                  newBest == IF improves THEN eval ELSE best
                  newMove == IF improves THEN move ELSE bestMove
                  newAlpha == IF isMaximizing THEN Max(alpha, eval) ELSE alpha
                  newBeta == IF isMaximizing THEN beta ELSE Min(beta, eval)
              IN  IF newBeta <= newAlpha
                  THEN [score |-> newBest, move |-> newMove, nodes |-> nodes + child.nodes]
                  ELSE CHOOSE rest \in
                          { searchMoves(w, b, player, depth, isMaximizing, v[1], v[2],
                                        moves, k + 1, v[3], v[4], v[5]) :
                              v \in { <<newAlpha, newBeta, newBest, newMove,
                                        nodes + child.nodes>> } } : TRUE :
                child \in { minimax(new[1], new[2], opponent(player), depth - 1,
                                    ~isMaximizing, alpha, beta) :
                              new \in { applyMove(w, b, moves[k], player) } } } : TRUE

\* Mutant of minimax: maxEval and minEval start from 0.
minimax_BestFromZero(w, b, player, depth, isMaximizing, alpha, beta) ==
    IF depth = 0 \/ ~hasValidMoves(w, b, player)
    THEN [score |-> evaluateBoard(w, b, player), move |-> NoMove, nodes |-> 1]
    ELSE searchMoves(w, b, player, depth, isMaximizing, alpha, beta,
                     getPossibleMoves(w, b, player), 1, 0, NoMove, 1)

\* Mutant of minimax: a side without a legal move passes and the search goes
\* on with the opponent.
minimax_PassAndContinue(w, b, player, depth, isMaximizing, alpha, beta) ==
    IF depth = 0
       \/ (~hasValidMoves(w, b, player) /\ ~hasValidMoves(w, b, opponent(player)))
    THEN [score |-> evaluateBoard(w, b, player), move |-> NoMove, nodes |-> 1]
    ELSE IF ~hasValidMoves(w, b, player)
    THEN LET passed == minimax(w, b, opponent(player), depth - 1, ~isMaximizing,
                               alpha, beta)
         IN  [score |-> passed.score, move |-> NoMove, nodes |-> 1 + passed.nodes]
    ELSE searchMoves(w, b, player, depth, isMaximizing, alpha, beta,
                     getPossibleMoves(w, b, player), 1,
                     IF isMaximizing THEN INT_MIN ELSE INT_MAX, NoMove, 1)

\* Mutant of minimax: a terminal of the minimizing side is scored with the
\* sign changed.
minimax_NegatedForMinimizer(w, b, player, depth, isMaximizing, alpha, beta) ==
    IF depth = 0 \/ ~hasValidMoves(w, b, player)
    THEN [score |-> IF isMaximizing THEN evaluateBoard(w, b, player)
                    ELSE -evaluateBoard(w, b, player),
          move |-> NoMove, nodes |-> 1]
    ELSE searchMoves(w, b, player, depth, isMaximizing, alpha, beta,
                     getPossibleMoves(w, b, player), 1,
                     IF isMaximizing THEN INT_MIN ELSE INT_MAX, NoMove, 1)

\* Mutant of minimax: a terminal is scored for the maximizing side, whoever
\* is to move at it.
minimax_ScoresForMaximizer(w, b, player, depth, isMaximizing, alpha, beta) ==
    IF depth = 0 \/ ~hasValidMoves(w, b, player)
    THEN [score |-> evaluateBoard(w, b, IF isMaximizing THEN player ELSE opponent(player)),
          move |-> NoMove, nodes |-> 1]
    ELSE searchMoves(w, b, player, depth, isMaximizing, alpha, beta,
                     getPossibleMoves(w, b, player), 1,
                     IF isMaximizing THEN INT_MIN ELSE INT_MAX, NoMove, 1)

minimax(w, b, player, depth, isMaximizing, alpha, beta) ==
    IF depth = 0 \/ ~hasValidMoves(w, b, player)
    THEN [score |-> evaluateBoard(w, b, player), move |-> NoMove, nodes |-> 1]
    ELSE CHOOSE found \in
            { searchMoves(w, b, player, depth, isMaximizing, alpha, beta, moves, 1,
                          IF isMaximizing THEN INT_MIN ELSE INT_MAX, NoMove, 1) :
                moves \in { getPossibleMoves(w, b, player) } } : TRUE

\* The minimax of the earlier opponent.cpp, which has no alpha and beta and
\* cuts nothing off.  Its leaf value is the disc difference White - Black;
\* withEvaluator = TRUE gives it the evaluator of the pruned search instead.
RECURSIVE minimaxUnpruned(_, _, _, _, _, _)
RECURSIVE searchAllMoves(_, _, _, _, _, _, _, _, _, _, _)

searchAllMoves(w, b, player, depth, isMaximizing, withEvaluator, moves, k, best, bestMove, nodes) ==
    IF k > Len(moves)
    THEN [score |-> best, move |-> bestMove, nodes |-> nodes]
    ELSE LET move == moves[k]
             new == applyMove(w, b, move, player)
             child == minimaxUnpruned(new[1], new[2], opponent(player), depth - 1,
                                      ~isMaximizing, withEvaluator)
             eval == child.score
             improves == IF isMaximizing THEN eval > best ELSE eval < best
         IN  searchAllMoves(w, b, player, depth, isMaximizing, withEvaluator,
                            moves, k + 1,
                            IF improves THEN eval ELSE best,
                            IF improves THEN move ELSE bestMove,
                            nodes + child.nodes)

minimaxUnpruned(w, b, player, depth, isMaximizing, withEvaluator) ==
    IF depth = 0 \/ ~hasValidMoves(w, b, player)
    THEN [score |-> IF withEvaluator THEN evaluateBoard(w, b, player)
                    ELSE getScore(w, b)[1] - getScore(w, b)[2],
          move |-> NoMove, nodes |-> 1]
    ELSE searchAllMoves(w, b, player, depth, isMaximizing, withEvaluator,
                        getPossibleMoves(w, b, player), 1,
                        IF isMaximizing THEN INT_MIN ELSE INT_MAX, NoMove, 1)

(***************************************************************************)
(* game.cpp: Game::run.  pc is the place in run:                           *)
(*   "start"      before run                                               *)
(*   "pvp_top"    at the while condition of Player vs Player               *)
(*   "pvp_turn1"  at the first playerTurn of the loop body                  *)
(*   "pvp_mid"    at the check between the two turns                       *)
(*   "pvp_turn2"  at the second playerTurn                                 *)
(*   "pvc_first"  at `if (!first)` of Player vs Computer                   *)
(*   "pvc_top"    at the while condition of Player vs Computer             *)
(*   "pvc_human"  at playerTurn(white, black, 'W')                         *)
(*   "pvc_mid"    at the check before the computer's move                  *)
(*   "over"       at "Game over"                                           *)
(*   "terminated" ended by an exception nothing catches                    *)
(*   "undefined"  after applyMove shifted by a negative index              *)
(* call keeps the arguments of the latest applyMove (or setupInitialPos),  *)
(* ret the latest thing printed or returned, nmoves the moves applied.     *)
(***************************************************************************)
\* What a player may type at the prompt: the squares of four short games (one
\* that ends after 9 moves, one in which White must pass after 8, their
\* continuations, and one against the computer), an empty line and a square
\* off the board.
HumanInputs ==
    { <<Letter.e, Digit[3]>>, <<Letter.f, Digit[3]>>, <<Letter.g, Digit[3]>>,
      <<Letter.g, Digit[2]>>, <<Letter.c, Digit[5]>>, <<Letter.h, Digit[3]>>,
      <<Letter.h, Digit[1]>>, <<Letter.f, Digit[1]>>, <<Letter.d, Digit[3]>>,
      <<Letter.c, Digit[2]>>, <<Letter.f, Digit[2]>>, <<Letter.e, Digit[2]>>,
      <<Letter.d, Digit[2]>>, <<Letter.b, Digit[5]>>, <<Letter.a, Digit[5]>>,
      <<Letter.a, Digit[3]>>, <<Letter.a, Digit[7]>>,
      << >>, <<Letter.i, Digit[1]>> }

NoCall == [op |-> "none"]

Init ==
    /\ white = {}
    /\ black = {}
    /\ first \in BOOLEAN
    /\ choice \in BOOLEAN
    /\ pc = "start"
    /\ nmoves = 0
    /\ call = NoCall
    /\ ret = NoCall

\* run up to the mode branch: setupInitialPos, firstPlayer() (first), the mode
\* typed (choice).
RunSetup ==
    /\ pc = "start"
    /\ white' = setupInitialPos(white, black)[1]
    /\ black' = setupInitialPos(white, black)[2]
    /\ call' = [op |-> "setupInitialPos", white |-> white, black |-> black]
    /\ pc' = IF choice THEN "pvp_top" ELSE "pvc_first"
    /\ UNCHANGED <<first, choice, nmoves, ret>>

\* playerTurn(white, black, player) called at pc = at, returning to next.  It
\* reads strings until readMove gets a move checkValidMove accepts.
PlayerTurn(player, at, next) ==
    /\ pc = at
    /\ IF ~hasValidMoves(white, black, player)
       THEN /\ pc' = next
            /\ ret' = [op |-> "no valid moves", player |-> player]
            /\ UNCHANGED <<white, black, nmoves, call>>
       ELSE \E position \in HumanInputs :
               LET parsed == stringToBoardPosition(position)
               IN  IF parsed.threw # "none"
                   THEN /\ pc' = "terminated"
                        /\ ret' = [op |-> parsed.threw]
                        /\ UNCHANGED <<white, black, nmoves, call>>
                   ELSE IF ~checkValidMove(white, black, parsed.pos, player)
                   THEN \* "Invalid move": readMove calls itself, at the same prompt
                        UNCHANGED <<white, black, nmoves, call, pc, ret>>
                   ELSE /\ nmoves < MaxMoves
                        /\ LET after == applyMove(white, black, parsed.pos, player)
                           IN  /\ white' = after[1]
                               /\ black' = after[2]
                        /\ call' = [op |-> "applyMove", white |-> white,
                                    black |-> black, pos |-> parsed.pos,
                                    player |-> player]
                        /\ nmoves' = nmoves + 1
                        /\ ret' = NoCall
                        /\ pc' = next
    /\ UNCHANGED <<first, choice>>

FirstPlayer == IF first THEN "W" ELSE "B"

\* The while condition of Player vs Player and the check before the first turn.
PvpTop ==
    /\ pc = "pvp_top"
    /\ pc' = IF ~(hasValidMoves(white, black, "W") \/ hasValidMoves(white, black, "B"))
             THEN "over"
             ELSE IF ~hasValidMoves(white, black, FirstPlayer)
             THEN "over"
             ELSE "pvp_turn1"
    /\ UNCHANGED <<white, black, first, choice, nmoves, call, ret>>

PvpTurn1 == PlayerTurn(FirstPlayer, "pvp_turn1", "pvp_mid")

\* Mutant of PvpMid: the second turn is taken whether or not its player can
\* move.
PvpMid_NoBreak ==
    /\ pc = "pvp_mid"
    /\ pc' = "pvp_turn2"
    /\ UNCHANGED <<white, black, first, choice, nmoves, call, ret>>

\* The check between the two turns.
PvpMid ==
    /\ pc = "pvp_mid"
    /\ pc' = IF ~hasValidMoves(white, black, opponent(FirstPlayer))
             THEN "over"
             ELSE "pvp_turn2"
    /\ UNCHANGED <<white, black, first, choice, nmoves, call, ret>>

PvpTurn2 == PlayerTurn(opponent(FirstPlayer), "pvp_turn2", "pvp_top")

\* The computer's move: minimax for Black from the full window, then applyMove
\* of what it returned, unchecked.
ComputerMove(next) ==
    \E found \in { minimax(white, black, "B", Min(MAX_DEPTH, GameDepth), TRUE,
                            INT_MIN, INT_MAX) } :
        LET bestMove == found.move
        IN  /\ ret' = [op |-> "minimax", score |-> found.score, move |-> bestMove,
                       text |-> boardPositionToString(bestMove)]
            /\ call' = [op |-> "applyMove", white |-> white, black |-> black,
                        pos |-> bestMove, player |-> "B"]
            /\ IF bestMove[1] * BOARD_LENGTH + bestMove[2] < 0
               THEN /\ pc' = "undefined"
                    /\ UNCHANGED <<white, black, nmoves>>
               ELSE /\ nmoves < MaxMoves
                    /\ LET after == applyMove(white, black, bestMove, "B")
                       IN  /\ white' = after[1]
                           /\ black' = after[2]
                    /\ nmoves' = nmoves + 1
                    /\ pc' = next

\* `if (!first)`: the computer opens.
PvcFirst ==
    /\ pc = "pvc_first"
    /\ IF ~first
       THEN ComputerMove("pvc_top")
       ELSE /\ pc' = "pvc_top"
            /\ UNCHANGED <<white, black, nmoves, call, ret>>
    /\ UNCHANGED <<first, choice>>

\* The while condition of Player vs Computer.
PvcTop ==
    /\ pc = "pvc_top"
    /\ pc' = IF hasValidMoves(white, black, "W") \/ hasValidMoves(white, black, "B")
             THEN "pvc_human"
             ELSE "over"
    /\ UNCHANGED <<white, black, first, choice, nmoves, call, ret>>

PvcHuman == PlayerTurn("W", "pvc_human", "pvc_mid")

\* Mutant of PvcMid: the computer's move is made without the check that Black
\* has a valid move.
PvcMid_NoCheck ==
    /\ pc = "pvc_mid"
    /\ ComputerMove("pvc_top")
    /\ UNCHANGED <<first, choice>>

\* The check after the human's turn, and the computer's move.
PvcMid ==
    /\ pc = "pvc_mid"
    /\ IF ~hasValidMoves(white, black, "B")
       THEN /\ pc' = "over"
            /\ UNCHANGED <<white, black, nmoves, call, ret>>
       ELSE ComputerMove("pvc_top")
    /\ UNCHANGED <<first, choice>>

Next ==
    \/ RunSetup
    \/ PvpTop
    \/ PvpTurn1
    \/ PvpMid
    \/ PvpTurn2
    \/ PvcFirst
    \/ PvcTop
    \/ PvcHuman
    \/ PvcMid

Spec == Init /\ [][Next]_vars

\* C1: in every state of a game the white mask and the black mask share no
\* set bit.
C1_MasksDisjoint == white \cap black = {}

\* C1 witness: a game in which the human and then the computer have moved,
\* the computer's move flipping at least one disc.
C1_Witness ==
    /\ ret.op = "minimax"
    /\ call.op = "applyMove"
    /\ nmoves >= 2
    /\ call.white \ white # {}

\* C5: "Game over" is reached only on a board on which neither White nor
\* Black has a valid move.
C5_OverOnlyWhenNeitherCanMove ==
    pc = "over" =>
        /\ ~hasValidMoves(white, black, "W")
        /\ ~hasValidMoves(white, black, "B")

\* C9: setupInitialPos on two zero masks leaves exactly four set bits: white
\* on 27 and 36, black on 28 and 35.
C9_InitialPosition ==
    (call.op = "setupInitialPos" /\ call.white = {} /\ call.black = {}) =>
        /\ white = {27, 36}
        /\ black = {28, 35}
        /\ Cardinality(white) + Cardinality(black) = 4

\* C9 witness: run has set the board up from the masks of a new Game.
C9_Witness ==
    /\ call.op = "setupInitialPos"
    /\ call.white = {}
    /\ call.black = {}
    /\ pc \in {"pvp_top", "pvc_first"}

(***************************************************************************)
(* SpecBoard: checkValidMove and applyMove applied to test boards.  A test *)
(* board is the initial position, or any disjoint pair of masks with at    *)
(* most MaxDiscs discs inside the 3x3 block of the first corner or of the  *)
(* opposite corner (so that walks leave the board on every side).  On each *)
(* test board the scan is run and every move that checkValidMove accepts   *)
(* is applied.                                                             *)
(***************************************************************************)
FirstCorner == { r * BOARD_LENGTH + c : r \in 0 .. 2, c \in 0 .. 2 }

LastCorner ==
    { r * BOARD_LENGTH + c : r \in (BOARD_LENGTH - 3) .. (BOARD_LENGTH - 1),
                             c \in (BOARD_LENGTH - 3) .. (BOARD_LENGTH - 1) }

UpTo(S, n) == { s \in SUBSET S : Cardinality(s) <= n }

\* The occupied squares of a test board.
TestOccupied == UpTo(FirstCorner, MaxDiscs) \cup UpTo(LastCorner, MaxDiscs)

InitBoard ==
    /\ \/ \E occupied \in TestOccupied :
             /\ white \in SUBSET occupied
             /\ black = occupied \ white
       \/ /\ white = setupInitialPos({}, {})[1]
          /\ black = setupInitialPos({}, {})[2]
    /\ first = TRUE
    /\ choice = TRUE
    /\ pc = "board"
    /\ nmoves = 0
    /\ call = NoCall
    /\ ret = NoCall

\* The scan of hasValidMoves and getPossibleMoves: checkValidMove called on
\* each of the 64 squares, for each player; ret keeps the accepted squares.
ScanCall ==
    /\ pc = "board"
    /\ call.op = "none"
    /\ ret.op = "none"
    /\ ret' = [op |-> "checkValidMove",
               legal |-> [p \in Players |->
                            { pos \in Positions : checkValidMove(white, black, pos, p) }]]
    /\ UNCHANGED <<white, black, first, choice, pc, nmoves, call>>

\* A caller that has validated the move applies it (the contract of applyMove).
ApplyCall(pos, player) ==
    /\ pc = "board"
    /\ nmoves = 0
    /\ checkValidMove(white, black, pos, player)
    /\ LET after == applyMove(white, black, pos, player)
       IN  /\ white' = after[1]
           /\ black' = after[2]
    /\ call' = [op |-> "applyMove", white |-> white, black |-> black,
                pos |-> pos, player |-> player]
    /\ ret' = NoCall
    /\ nmoves' = nmoves + 1
    /\ UNCHANGED <<first, choice, pc>>

NextBoard ==
    \/ ScanCall
    \/ \E pos \in Positions : \E player \in Players : ApplyCall(pos, player)

SpecBoard == InitBoard /\ [][NextBoard]_vars

(***************************************************************************)
(* The rule of the game, stated on a board without reference to the walk.  *)
(***************************************************************************)
\* The square k steps from pos in direction i, as <<row, column>>.
Step(pos, i, k) == <<pos[1] + k * DIRECTIONS[i][1], pos[2] + k * DIRECTIONS[i][2]>>

IndexOf(pos) == pos[1] * BOARD_LENGTH + pos[2]

\* From pos in direction i: exactly n opponent discs, then a mover disc.
Run(mover, other, pos, i, n) ==
    /\ \A k \in 1 .. n :
          InBoard(Step(pos, i, k)[1], Step(pos, i, k)[2])
          /\ IndexOf(Step(pos, i, k)) \in other
    /\ InBoard(Step(pos, i, n + 1)[1], Step(pos, i, n + 1)[2])
    /\ IndexOf(Step(pos, i, n + 1)) \in mover

Outflanks(w, b, pos, player) ==
    LET mover == IF player = "W" THEN w ELSE b
        other == IF player = "W" THEN b ELSE w
    IN  /\ IndexOf(pos) \notin w
        /\ IndexOf(pos) \notin b
        /\ \E i \in 1 .. 8 :
              /\ IndexOf(Step(pos, i, 1)) \in other
              /\ \E n \in 1 .. (BOARD_LENGTH - 2) : Run(mover, other, pos, i, n)

\* The opponent discs outflanked by a mover disc placed on pos.
Flipped(w, b, pos, player) ==
    LET mover == IF player = "W" THEN w ELSE b
        other == IF player = "W" THEN b ELSE w
    IN  { IndexOf(Step(pos, i, k)) :
            <<i, k>> \in { x \in (1 .. 8) \X (1 .. (BOARD_LENGTH - 2)) :
                             \E n \in x[2] .. (BOARD_LENGTH - 2) :
                                Run(mover, other, pos, x[1], n) } }

HasAdjacentOpponent(w, b, pos, player) ==
    LET other == IF player = "W" THEN b ELSE w
    IN  \E i \in 1 .. 8 :
           InBoard(Step(pos, i, 1)[1], Step(pos, i, 1)[2])
           /\ IndexOf(Step(pos, i, 1)) \in other

\* C2: checkValidMove accepts a square for a player if and only if the square
\* is empty in both masks and, in at least one of the 8 directions, one or
\* more consecutive opponent discs next to it are followed by a disc of the
\* mover, all inside the board; a square with no adjacent opponent disc and an
\* occupied square are never accepted.
C2_ValidIffOutflank ==
    ret.op = "checkValidMove" =>
        \A p \in Players : \A pos \in Positions :
            /\ (pos \in ret.legal[p]) <=> Outflanks(white, black, pos, p)
            /\ ~HasAdjacentOpponent(white, black, pos, p) => pos \notin ret.legal[p]
            /\ IndexOf(pos) \in white \cup black => pos \notin ret.legal[p]

\* C2 witness: a scan that accepted a square whose outflanked run is two discs
\* long, and rejected an empty square next to an opponent disc.
C2_Witness ==
    /\ ret.op = "checkValidMove"
    /\ \E p \in Players : \E pos \in ret.legal[p] : \E i \in 1 .. 8 :
          Run(IF p = "W" THEN white ELSE black, IF p = "W" THEN black ELSE white,
              pos, i, 2)
    /\ \E p \in Players : \E pos \in Positions :
          /\ pos \notin ret.legal[p]
          /\ IndexOf(pos) \notin white \cup black
          /\ HasAdjacentOpponent(white, black, pos, p)

\* C3: applyMove on a move that checkValidMove accepted adds the target and
\* the outflanked discs F to the mover's mask, removes exactly F from the
\* opponent's mask, F is not empty, the mover gains 1 + |F| discs and the
\* opponent loses |F|; nothing else changes.
C3_ApplyFlipsOutflanked ==
    call.op = "applyMove" =>
        LET F == Flipped(call.white, call.black, call.pos, call.player)
            moverBefore == IF call.player = "W" THEN call.white ELSE call.black
            otherBefore == IF call.player = "W" THEN call.black ELSE call.white
            moverAfter == IF call.player = "W" THEN white ELSE black
            otherAfter == IF call.player = "W" THEN black ELSE white
        IN  /\ F # {}
            /\ F \subseteq otherBefore
            /\ moverAfter = moverBefore \cup {IndexOf(call.pos)} \cup F
            /\ otherAfter = otherBefore \ F
            /\ Cardinality(moverAfter) = Cardinality(moverBefore) + 1 + Cardinality(F)
            /\ Cardinality(otherAfter) = Cardinality(otherBefore) - Cardinality(F)
            /\ moverAfter \cap otherAfter = {}

\* C3 witness: an applied move that flipped a run of two discs.
C3_Witness ==
    /\ call.op = "applyMove"
    /\ \E i \in 1 .. 8 :
          Run(IF call.player = "W" THEN call.white ELSE call.black,
              IF call.player = "W" THEN call.black ELSE call.white,
              call.pos, i, 2)
    /\ Cardinality(Flipped(call.white, call.black, call.pos, call.player)) = 2

(***************************************************************************)
(* SpecSearch: minimax called on test boards.  A test board is the initial *)
(* position, a position one legal move after it, or any disjoint pair of   *)
(* masks with at most SearchDiscs discs on the five squares a1, b1, c1, a2 *)
(* and b2.  The depth is at most DepthBound, the window one of Windows.    *)
(***************************************************************************)
CornerBlock ==
    { x[1] * BOARD_LENGTH + x[2] : x \in { y \in (0 .. 1) \X (0 .. 2) : y[1] + y[2] <= 2 } }

InitialBoard == setupInitialPos({}, {})

\* The positions one legal move after the initial position.
AfterFirstMove ==
    { applyMove(InitialBoard[1], InitialBoard[2], x[1], x[2]) :
        x \in { y \in Positions \X Players :
                  checkValidMove(InitialBoard[1], InitialBoard[2], y[1], y[2]) } }

\* <<alpha, beta>>: the window of Game::run, a narrow one, an empty one.
Windows == { <<INT_MIN, INT_MAX>>, <<-1, 1>>, <<5, -5>> }

InitSearch ==
    /\ \/ \E occupied \in UpTo(CornerBlock, SearchDiscs) :
             /\ white \in SUBSET occupied
             /\ black = occupied \ white
       \/ \E board \in {InitialBoard} \cup AfterFirstMove :
             /\ white = board[1]
             /\ black = board[2]
    /\ first = TRUE
    /\ choice = FALSE
    /\ pc = "search"
    /\ nmoves = 0
    /\ call = NoCall
    /\ ret = NoCall

\* One call of minimax on the board; the masks are passed by value.
MinimaxCall(player, depth, isMaximizing, window) ==
    /\ pc = "search"
    /\ call.op = "none"
    /\ \E found \in { minimax(white, black, player, depth, isMaximizing,
                              window[1], window[2]) } :
          ret' = [op |-> "minimax", result |-> found]
    /\ call' = [op |-> "minimax", player |-> player, depth |-> depth,
                isMaximizing |-> isMaximizing, alpha |-> window[1],
                beta |-> window[2]]
    /\ UNCHANGED <<white, black, first, choice, pc, nmoves>>

NextSearch ==
    \E player \in Players : \E depth \in 0 .. DepthBound :
       \E isMaximizing \in BOOLEAN : \E window \in Windows :
          MinimaxCall(player, depth, isMaximizing, window)

SpecSearch == InitSearch /\ [][NextSearch]_vars

FullWindow == call.alpha = INT_MIN /\ call.beta = INT_MAX

\* C4: called with alpha = INT_MIN and beta = INT_MAX, the pruned minimax
\* returns the move (and the score) that the unpruned minimax returns with the
\* same evaluator, enumeration and tie-break.
C4_PrunedEqualsUnpruned ==
    (call.op = "minimax" /\ FullWindow) =>
        LET full == minimaxUnpruned(white, black, call.player, call.depth,
                                    call.isMaximizing, TRUE)
        IN  /\ ret.result.move = full.move
            /\ ret.result.score = full.score
            /\ ret.result.nodes <= full.nodes

\* C4 witness: a full-window search that returned a move and visited fewer
\* nodes than the unpruned search does.
C4_Witness ==
    /\ call.op = "minimax"
    /\ FullWindow
    /\ ret.result.move # NoMove
    /\ ret.result.nodes <
          minimaxUnpruned(white, black, call.player, call.depth,
                          call.isMaximizing, TRUE).nodes

\* C6: with the full window, minimax returns the sentinel exactly when depth
\* is 0 or the player has no legal move, and otherwise a position that
\* checkValidMove accepts for the player.
C6_DefinedResult ==
    (call.op = "minimax" /\ FullWindow) =>
        /\ (ret.result.move = NoMove) <=>
              (call.depth = 0 \/ ~hasValidMoves(white, black, call.player))
        /\ (call.depth >= 1 /\ hasValidMoves(white, black, call.player)) =>
              /\ ret.result.move \in Positions
              /\ checkValidMove(white, black, ret.result.move, call.player)

\* C6 witness: a full-window search of depth >= 1 for a maximizing player
\* with a legal move, none of whose moves is scored above 0.
C6_Witness ==
    /\ call.op = "minimax"
    /\ FullWindow
    /\ call.depth >= 1
    /\ call.isMaximizing
    /\ hasValidMoves(white, black, call.player)
    /\ ret.result.move \in Positions
    /\ ret.result.score <= 0

\* C7: when the side to move has no legal move, minimax at a depth > 0 returns
\* evaluateBoard of the position for that side with the sentinel, in a single
\* call: no move is enumerated or applied, and the turn is not passed.
C7_NoMoveTerminal ==
    (call.op = "minimax" /\ call.depth > 0
        /\ ~hasValidMoves(white, black, call.player)) =>
        /\ ret.result.score = evaluateBoard(white, black, call.player)
        /\ ret.result.move = NoMove
        /\ ret.result.nodes = 1

\* C7 witness: a search of depth > 0 for a side that cannot move while its
\* opponent can.
C7_Witness ==
    /\ call.op = "minimax"
    /\ call.depth > 0
    /\ ~hasValidMoves(white, black, call.player)
    /\ hasValidMoves(white, black, opponent(call.player))
    /\ ret.result.move = NoMove

\* C8: at depth 0, for any alpha and beta, minimax returns evaluateBoard of
\* the position for the player with the sentinel, and the same for
\* isMaximizing true and false.
C8_DepthZero ==
    (call.op = "minimax" /\ call.depth = 0) =>
        /\ ret.result.score = evaluateBoard(white, black, call.player)
        /\ ret.result.move = NoMove
        /\ ret.result = minimax(white, black, call.player, 0, ~call.isMaximizing,
                                call.alpha, call.beta)

\* C8 witness: a depth-0 call for the minimizing side, with an empty window,
\* on a board with legal moves whose evaluation is not 0.
C8_Witness ==
    /\ call.op = "minimax"
    /\ call.depth = 0
    /\ ~call.isMaximizing
    /\ call.alpha > call.beta
    /\ hasValidMoves(white, black, call.player)
    /\ ret.result.score # 0
    /\ ret.result.move = NoMove

(***************************************************************************)
(* SpecCoord: stringToBoardPosition and boardPositionToString applied to   *)
(* strings and positions, and each to the result of the other.             *)
(***************************************************************************)
\* The characters '`', 'a'..'i' and '0'..'9'.
CoordChars == ((Letter.a - 1) .. Letter.i) \cup (Digit[0] .. Digit[9])

RECURSIVE StringsOver(_, _)
StringsOver(chars, n) ==
    IF n = 0 THEN { << >> }
    ELSE { Append(t, ch) : t \in StringsOver(chars, n - 1), ch \in chars }

\* Every two-character string over CoordChars, and the strings of up to
\* MaxLen characters over 'a', '1', 'i' and '9'.
CoordStrings ==
    StringsOver(CoordChars, 2)
    \cup UNION { StringsOver({Letter.a, Digit[1], Letter.i, Digit[9]}, n) : n \in 0 .. MaxLen }

InitCoord ==
    /\ white = {}
    /\ black = {}
    /\ first = TRUE
    /\ choice = TRUE
    /\ pc = "coord"
    /\ nmoves = 0
    /\ \/ \E position \in CoordStrings : call = [op |-> "string", arg |-> position]
       \/ \E position \in Positions : call = [op |-> "position", arg |-> position]
    /\ ret = NoCall

\* stringToBoardPosition(call.arg).
ParseCall ==
    /\ pc = "coord"
    /\ call.op = "string"
    /\ LET parsed == stringToBoardPosition(call.arg)
       IN  ret' = [op |-> "stringToBoardPosition", threw |-> parsed.threw,
                   value |-> parsed.pos]
    /\ pc' = IF stringToBoardPosition(call.arg).threw = "none"
             THEN "parsed" ELSE "terminated"
    /\ UNCHANGED <<white, black, first, choice, nmoves, call>>

\* boardPositionToString of what stringToBoardPosition returned.
FormatBack ==
    /\ pc = "parsed"
    /\ ret' = [op |-> "boardPositionToString", threw |-> "none",
               value |-> boardPositionToString(ret.value)]
    /\ pc' = "done"
    /\ UNCHANGED <<white, black, first, choice, nmoves, call>>

\* boardPositionToString(call.arg).
FormatCall ==
    /\ pc = "coord"
    /\ call.op = "position"
    /\ ret' = [op |-> "boardPositionToString", threw |-> "none",
               value |-> boardPositionToString(call.arg)]
    /\ pc' = "formatted"
    /\ UNCHANGED <<white, black, first, choice, nmoves, call>>

\* stringToBoardPosition of what boardPositionToString returned.
ParseBack ==
    /\ pc = "formatted"
    /\ LET parsed == stringToBoardPosition(ret.value)
       IN  ret' = [op |-> "stringToBoardPosition", threw |-> parsed.threw,
                   value |-> parsed.pos]
    /\ pc' = "done"
    /\ UNCHANGED <<white, black, first, choice, nmoves, call>>

NextCoord ==
    \/ ParseCall
    \/ FormatBack
    \/ FormatCall
    \/ ParseBack

SpecCoord == InitCoord /\ [][NextCoord]_vars

\* A two-character string with its column in 'a'..'h' and its row in '1'..'8'.
ValidString(position) ==
    /\ Len(position) = 2
    /\ position[1] \in Letter.a .. Letter.h
    /\ position[2] \in Digit[1] .. Digit[8]

\* C10: a valid coordinate string parses to <<row digit - '1', column letter -
\* 'a'>> and formats back to itself; a position with row and column in 0..7
\* formats to a string that parses back to the position.
C10_RoundTrip ==
    /\ (call.op = "string" /\ ValidString(call.arg) /\ pc = "parsed") =>
          /\ ret.threw = "none"
          /\ ret.value = <<call.arg[2] - Digit[1], call.arg[1] - Letter.a>>
          /\ ret.value \in Positions
    /\ (call.op = "string" /\ ValidString(call.arg)) => pc # "terminated"
    /\ (call.op = "string" /\ ValidString(call.arg) /\ pc = "done") =>
          ret.value = call.arg
    /\ (call.op = "position" /\ pc = "formatted") => ValidString(ret.value)
    /\ (call.op = "position" /\ pc = "done") =>
          /\ ret.threw = "none"
          /\ ret.value = call.arg

\* C10 witness: "h8" parsed and formatted back.
C10_Witness ==
    /\ call.op = "string"
    /\ call.arg = <<Letter.h, Digit[8]>>
    /\ pc = "done"
    /\ ret.op = "boardPositionToString"

\* C11: stringToBoardPosition throws std::invalid_argument for every string
\* whose length is not 2, and std::out_of_range for every string of length 2
\* whose first character is outside 'a'..'h' or whose second is outside
\* '1'..'8'; in both cases no position is returned.
C11_ParseFailure ==
    (call.op = "string" /\ ret.op = "stringToBoardPosition") =>
        /\ Len(call.arg) # 2 => ret.threw = "invalid_argument"
        /\ (Len(call.arg) = 2
              /\ (call.arg[1] \notin Letter.a .. Letter.h
                  \/ call.arg[2] \notin Digit[1] .. Digit[8])) =>
              ret.threw = "out_of_range"
        /\ ret.threw # "none" => (pc = "terminated" /\ ret.value \notin Positions)
        /\ ret.threw = "none" => ValidString(call.arg)

\* C11 witness: "i1" was refused as out of range.
C11_Witness ==
    /\ call.op = "string"
    /\ call.arg = <<Letter.i, Digit[1]>>
    /\ ret.op = "stringToBoardPosition"
    /\ ret.threw = "out_of_range"
    /\ pc = "terminated"

\* C12: in every state of a game getScore returns the number of set bits of
\* white and of black; the two counts add up to the number of squares set in
\* white | black, and to at most 64.
C12_ScoreSumsToOccupied ==
    LET score == getScore(white, black)
    IN  /\ score = <<Cardinality(white), Cardinality(black)>>
        /\ score[1] + score[2] = Cardinality(white \cup black)
        /\ score[1] + score[2] <= BOARD_LENGTH * BOARD_LENGTH

\* C12 witness: "Game over" (where run calls getScore) after at least 8 moves,
\* the two counts different.
C12_Witness ==
    /\ pc = "over"
    /\ nmoves >= 8
    /\ getScore(white, black)[1] # getScore(white, black)[2]

(***************************************************************************)
(* SpecFlip: applyMove on boards with discs on several rays of one square. *)
(* From RayOrigin, at most MaxRays of the 8 directions carry a pattern of  *)
(* opponent ("O") and mover ("M") discs, cut off at the edge of the board. *)
(* applyMove is called on the moves checkValidMove accepts and, unchecked, *)
(* on FlipTargets.                                                         *)
(***************************************************************************)
RayOrigin == <<2, 2>>

\* A closed run of one disc, a closed run of two, an open run.
RayPatterns == { <<"O", "M">>, <<"O", "O", "M">>, <<"O">> }

\* The squares unchecked calls of applyMove aim at: the origin, a square that
\* a pattern occupies, a square beside the rays.
FlipTargets == { RayOrigin, <<2, 3>>, <<3, 4>> }

\* The discs that kind marks on the rays dirs with the patterns f.
RayCells(dirs, f, kind) ==
    { IndexOf(Step(RayOrigin, x[1], x[2])) :
        x \in { y \in dirs \X (1 .. 3) :
                  /\ y[2] <= Len(f[y[1]])
                  /\ f[y[1]][y[2]] = kind
                  /\ InBoard(Step(RayOrigin, y[1], y[2])[1],
                             Step(RayOrigin, y[1], y[2])[2]) } }

InitFlip ==
    /\ \E mover \in Players : \E dirs \in UpTo(1 .. Len(DIRECTIONS), MaxRays) :
          \E f \in [dirs -> RayPatterns] :
             /\ white = RayCells(dirs, f, IF mover = "W" THEN "M" ELSE "O")
             /\ black = RayCells(dirs, f, IF mover = "W" THEN "O" ELSE "M")
    /\ first = TRUE
    /\ choice = TRUE
    /\ pc = "board"
    /\ nmoves = 0
    /\ call = NoCall
    /\ ret = NoCall

\* applyMove called without the check of the caller.
ApplyUnchecked(pos, player) ==
    /\ pc = "board"
    /\ nmoves = 0
    /\ LET after == applyMove(white, black, pos, player)
       IN  /\ white' = after[1]
           /\ black' = after[2]
    /\ call' = [op |-> "applyMove", white |-> white, black |-> black,
                pos |-> pos, player |-> player]
    /\ ret' = NoCall
    /\ nmoves' = nmoves + 1
    /\ UNCHANGED <<first, choice, pc>>

NextFlip ==
    \/ \E pos \in Positions : \E player \in Players : ApplyCall(pos, player)
    \/ \E pos \in FlipTargets : \E player \in Players : ApplyUnchecked(pos, player)

SpecFlip == InitFlip /\ [][NextFlip]_vars

\* What one direction flips when it walks the boards mover and other as they
\* were before the move.
SnapshotFlips(mover, other, pos, i) ==
    flipWalk(mover, other, pos[1] + DIRECTIONS[i][1], pos[2] + DIRECTIONS[i][2],
             DIRECTIONS[i][1], DIRECTIONS[i][2], FALSE, {})[1] \ mover

\* All 8 directions evaluated against the pre-move masks, then every flip
\* applied: <<white, black>>.
applyMoveSnapshot(w, b, pos, player) ==
    LET mover == IF player = "W" THEN w ELSE b
        other == IF player = "W" THEN b ELSE w
        F == UNION { SnapshotFlips(mover, other, pos, i) : i \in 1 .. Len(DIRECTIONS) }
        moverAfter == mover \cup {IndexOf(pos)} \cup F
        otherAfter == other \ F
    IN  IF player = "W" THEN <<moverAfter, otherAfter>> ELSE <<otherAfter, moverAfter>>

\* C13: the result of applyMove, which walks each direction on the masks the
\* earlier directions left, equals the result of evaluating all 8 directions
\* on the masks as they were before the move and then applying every flip.
C13_DirectionIndependent ==
    call.op = "applyMove" =>
        <<white, black>> = applyMoveSnapshot(call.white, call.black, call.pos, call.player)

\* C13 witness: a move that flipped discs in two directions while a third
\* direction held an open run that stayed.
C13_Witness ==
    /\ call.op = "applyMove"
    /\ LET mover == IF call.player = "W" THEN call.white ELSE call.black
           other == IF call.player = "W" THEN call.black ELSE call.white
       IN  /\ Cardinality({ i \in 1 .. Len(DIRECTIONS) :
                              SnapshotFlips(mover, other, call.pos, i) # {} }) >= 2
           /\ \E i \in 1 .. Len(DIRECTIONS) :
                 /\ IndexOf(Step(call.pos, i, 1)) \in other
                 /\ InBoard(Step(call.pos, i, 1)[1], Step(call.pos, i, 1)[2])
                 /\ SnapshotFlips(mover, other, call.pos, i) = {}
                 /\ IndexOf(Step(call.pos, i, 1)) \in
                       (IF call.player = "W" THEN black ELSE white)

\* The scores the loop of minimax gets from the children it evaluates, in
\* the order of the loop, from the k-th move on: the loop stops after the
\* child at which beta <= alpha.
RECURSIVE evaluatedChildren(_, _, _, _, _, _, _, _, _)
evaluatedChildren(w, b, player, depth, isMaximizing, alpha, beta, moves, k) ==
    IF k > Len(moves) THEN << >>
    ELSE LET new == applyMove(w, b, moves[k], player)
             eval == minimax(new[1], new[2], opponent(player), depth - 1,
                             ~isMaximizing, alpha, beta).score
             newAlpha == IF isMaximizing THEN Max(alpha, eval) ELSE alpha
             newBeta == IF isMaximizing THEN beta ELSE Min(beta, eval)
         IN  IF newBeta <= newAlpha THEN <<eval>>
             ELSE <<eval>> \o evaluatedChildren(w, b, player, depth, isMaximizing,
                                                newAlpha, newBeta, moves, k + 1)

\* The best of a non-empty sequence of scores for the node, and the first
\* place it stands at.
BestOf(evals, isMaximizing) ==
    CHOOSE x \in { evals[k] : k \in 1 .. Len(evals) } :
        \A k \in 1 .. Len(evals) : IF isMaximizing THEN evals[k] <= x ELSE evals[k] >= x

FirstAt(evals, x) == CHOOSE k \in 1 .. Len(evals) : evals[k] = x /\ \A j \in 1 .. (k - 1) : evals[j] # x

\* C14: getPossibleMoves returns exactly the legal moves in row-major order,
\* and at a node with legal moves and depth >= 1 minimax returns the best
\* score among the children it evaluated with the first move, in that order,
\* that reached it.
C14_FirstBestMove ==
    call.op = "minimax" =>
        LET moves == getPossibleMoves(white, black, call.player)
        IN  /\ \A j, k \in 1 .. Len(moves) :
                  j < k => IndexOf(moves[j]) < IndexOf(moves[k])
            /\ { moves[k] : k \in 1 .. Len(moves) } =
                  { pos \in Positions : checkValidMove(white, black, pos, call.player) }
            /\ (call.depth >= 1 /\ Len(moves) > 0) =>
                  LET evals == evaluatedChildren(white, black, call.player, call.depth,
                                                 call.isMaximizing, call.alpha, call.beta,
                                                 moves, 1)
                      best == BestOf(evals, call.isMaximizing)
                  IN  /\ ret.result.score = best
                      /\ ret.result.move = moves[FirstAt(evals, best)]

\* C14 witness: a full-window search in which a later move reached the same
\* score as the move returned, and the returned move is not the first one.
C14_Witness ==
    /\ call.op = "minimax"
    /\ FullWindow
    /\ call.depth >= 1
    /\ LET moves == getPossibleMoves(white, black, call.player)
           evals == evaluatedChildren(white, black, call.player, call.depth,
                                      call.isMaximizing, call.alpha, call.beta, moves, 1)
       IN  /\ Len(moves) >= 3
           /\ ret.result.move # moves[1]
           /\ \E k \in 1 .. Len(evals) :
                 /\ evals[k] = ret.result.score
                 /\ moves[k] # ret.result.move

(***************************************************************************)
(* SpecEval: evaluateBoard called for each player on three kinds of board: *)
(*  - the four side cells of one offset in 1..MaxOffset and the corners    *)
(*    (0,0) and (7,7), each empty, white or black;                         *)
(*  - the side cells (0,1..6) all of one content and (1..6,7) all of one;  *)
(*  - one disc on (3,3) and discs of the other colour on any of its 8      *)
(*    neighbours.                                                          *)
(***************************************************************************)
\* The cells (0,i), (7,i), (i,0), (i,7).
SideCells(i) ==
    { i, (BOARD_LENGTH - 1) * BOARD_LENGTH + i, i * BOARD_LENGTH,
      i * BOARD_LENGTH + (BOARD_LENGTH - 1) }

CornerCells ==
    { 0, BOARD_LENGTH - 1, (BOARD_LENGTH - 1) * BOARD_LENGTH,
      (BOARD_LENGTH - 1) * BOARD_LENGTH + (BOARD_LENGTH - 1) }

Contents == {"W", "B", "none"}

\* The cells of the function content (cell -> Contents) that hold colour.
Holding(content, colour) == { x \in DOMAIN content : content[x] = colour }

StarCentre == 3 * BOARD_LENGTH + 3

StarNeighbours ==
    { IndexOf(Step(<<3, 3>>, i, 1)) : i \in 1 .. Len(DIRECTIONS) }

InitEval ==
    /\ \/ \E i \in 1 .. MaxOffset :
             \E content \in [SideCells(i) \cup {0, BOARD_LENGTH * BOARD_LENGTH - 1} -> Contents] :
                /\ white = Holding(content, "W")
                /\ black = Holding(content, "B")
       \/ \E top \in Contents : \E right \in Contents :
             LET content == [x \in { i : i \in 1 .. (BOARD_LENGTH - 2) }
                                   \cup { i * BOARD_LENGTH + (BOARD_LENGTH - 1) :
                                            i \in 1 .. (BOARD_LENGTH - 2) } |->
                               IF x < BOARD_LENGTH THEN top ELSE right]
             IN  /\ white = Holding(content, "W")
                 /\ black = Holding(content, "B")
       \/ \E centre \in Players : \E ring \in SUBSET StarNeighbours :
             /\ white = IF centre = "W" THEN {StarCentre} ELSE ring
             /\ black = IF centre = "W" THEN ring ELSE {StarCentre}
    /\ first = TRUE
    /\ choice = TRUE
    /\ pc = "eval"
    /\ nmoves = 0
    /\ call = NoCall
    /\ ret = NoCall

\* One call of evaluateBoard on the board.
EvaluateCall(player) ==
    /\ pc = "eval"
    /\ call.op = "none"
    /\ call' = [op |-> "evaluateBoard", player |-> player]
    /\ ret' = [op |-> "evaluateBoard", value |-> evaluateBoard(white, black, player)]
    /\ UNCHANGED <<white, black, first, choice, pc, nmoves>>

NextEval == \E player \in Players : EvaluateCall(player)

SpecEval == InitEval /\ [][NextEval]_vars

\* The terms of the evaluation, each stated on the board.
Material(mine, theirs) == Cardinality(mine) - Cardinality(theirs)

CornerControl(mine, theirs) ==
    10 * Cardinality(CornerCells \cap mine) - 10 * Cardinality(CornerCells \cap theirs)

EdgeControl(mine, theirs) ==
    5 * Cardinality({ i \in 1 .. 6 : SideCells(i) \cap mine # {} })
    - 5 * Cardinality({ i \in 1 .. 6 : SideCells(i) \cap mine = {}
                                        /\ SideCells(i) \cap theirs # {} })

\* Legal moves of player minus legal moves of the opponent.
MoveDifference(w, b, player) ==
    Cardinality({ pos \in Positions : checkValidMove(w, b, pos, player) })
    - Cardinality({ pos \in Positions : checkValidMove(w, b, pos, opponent(player)) })

\* d / 5 rounded toward zero: the q with 5q between 0 and d and |d - 5q| < 5.
TowardZero(d) ==
    CHOOSE q \in -(BOARD_LENGTH * BOARD_LENGTH) .. (BOARD_LENGTH * BOARD_LENGTH) :
        /\ d >= 0 => (5 * q <= d /\ d < 5 * q + 5)
        /\ d < 0 => (5 * q >= d /\ d > 5 * q - 5)

\* C15: evaluateBoard is (player discs - opponent discs) + cornerControl +
\* edgeControl + mobility: 10 per corner held, -10 per corner the opponent
\* holds; for each offset 1..6, +5 once if the player holds any of its four
\* side cells, -5 once if the player holds none and the opponent holds one;
\* edgeControl is in -30..30.
C15_EvaluationFormula ==
    ret.op = "evaluateBoard" =>
        LET mine == IF call.player = "W" THEN white ELSE black
            theirs == IF call.player = "W" THEN black ELSE white
        IN  /\ ret.value = Material(mine, theirs) + CornerControl(mine, theirs)
                           + EdgeControl(mine, theirs)
                           + TowardZero(MoveDifference(white, black, call.player))
            /\ EdgeControl(mine, theirs) \in -30 .. 30

\* C15 witness: evaluateBoard for a player who holds one of the four side
\* cells of an offset while the opponent holds the other three.
C15_Witness ==
    /\ ret.op = "evaluateBoard"
    /\ LET mine == IF call.player = "W" THEN white ELSE black
           theirs == IF call.player = "W" THEN black ELSE white
       IN  \E i \in 1 .. 6 :
              /\ Cardinality(SideCells(i) \cap mine) = 1
              /\ Cardinality(SideCells(i) \cap theirs) = 3
              /\ EdgeControl(mine, theirs) = 5

\* C16: the mobility term of evaluateBoard is the move difference divided by
\* 5 and rounded toward zero: 0 for a difference in -4..4, -1 for -9..-5, 1
\* for 5..9.
C16_MobilityTowardZero ==
    ret.op = "evaluateBoard" =>
        LET mine == IF call.player = "W" THEN white ELSE black
            theirs == IF call.player = "W" THEN black ELSE white
            d == MoveDifference(white, black, call.player)
            mobility == ret.value - Material(mine, theirs) - CornerControl(mine, theirs)
                        - EdgeControl(mine, theirs)
        IN  /\ d \in -4 .. 4 => mobility = 0
            /\ d \in -9 .. -5 => mobility = -1
            /\ d \in 5 .. 9 => mobility = 1
            /\ mobility = TowardZero(d)

\* C16 witness: evaluateBoard for a player with 6 to 9 legal moves fewer than
\* the opponent.
C16_Witness ==
    /\ ret.op = "evaluateBoard"
    /\ MoveDifference(white, black, call.player) \in -9 .. -6

(***************************************************************************)
(* SpecLive: Game::run played to its end, every prompt answered with a     *)
(* well-formed legal move.  The steps of run are taken one after the       *)
(* other, so a step that can be taken is taken: WF_vars(NextLive).         *)
(***************************************************************************)
\* What the human types at a prompt: the text of a legal move.
LiveAnswers(player) ==
    LET moves == getPossibleMoves(white, black, player)
        n == IF nmoves < BranchMoves THEN Min(LiveChoices, Len(moves)) ELSE 1
    IN  { boardPositionToString(moves[k]) : k \in 1 .. n }

\* playerTurn with a human who types a legal move.
LivePlayerTurn(player, at, next) ==
    /\ pc = at
    /\ IF ~hasValidMoves(white, black, player)
       THEN /\ pc' = next
            /\ ret' = [op |-> "no valid moves", player |-> player]
            /\ UNCHANGED <<white, black, nmoves, call>>
       ELSE \E position \in LiveAnswers(player) :
               \E parsed \in { stringToBoardPosition(position) } :
                  /\ parsed.threw = "none"
                  /\ checkValidMove(white, black, parsed.pos, player)
                  /\ LET after == applyMove(white, black, parsed.pos, player)
                     IN  /\ white' = after[1]
                         /\ black' = after[2]
                  /\ call' = [op |-> "applyMove", white |-> white, black |-> black,
                              pos |-> parsed.pos, player |-> player]
                  /\ nmoves' = nmoves + 1
                  /\ ret' = NoCall
                  /\ pc' = next
    /\ UNCHANGED <<first, choice>>

\* The computer's move: minimax for Black, then applyMove of what it returned.
LiveComputerMove(next) ==
    \E found \in { minimax(white, black, "B", Min(MAX_DEPTH, GameDepth), TRUE,
                            INT_MIN, INT_MAX) } :
        LET bestMove == found.move
        IN  /\ ret' = [op |-> "minimax", score |-> found.score, move |-> bestMove,
                       text |-> boardPositionToString(bestMove)]
            /\ call' = [op |-> "applyMove", white |-> white, black |-> black,
                        pos |-> bestMove, player |-> "B"]
            /\ IF bestMove[1] * BOARD_LENGTH + bestMove[2] < 0
               THEN /\ pc' = "undefined"
                    /\ UNCHANGED <<white, black, nmoves>>
               ELSE /\ LET after == applyMove(white, black, bestMove, "B")
                       IN  /\ white' = after[1]
                           /\ black' = after[2]
                    /\ nmoves' = nmoves + 1
                    /\ pc' = next

LivePvpTurn1 == LivePlayerTurn(FirstPlayer, "pvp_turn1", "pvp_mid")

LivePvpTurn2 == LivePlayerTurn(opponent(FirstPlayer), "pvp_turn2", "pvp_top")

LivePvcFirst ==
    /\ pc = "pvc_first"
    /\ IF ~first
       THEN LiveComputerMove("pvc_top")
       ELSE /\ pc' = "pvc_top"
            /\ UNCHANGED <<white, black, nmoves, call, ret>>
    /\ UNCHANGED <<first, choice>>

LivePvcHuman == LivePlayerTurn("W", "pvc_human", "pvc_mid")

LivePvcMid ==
    /\ pc = "pvc_mid"
    /\ IF ~hasValidMoves(white, black, "B")
       THEN /\ pc' = "over"
            /\ UNCHANGED <<white, black, nmoves, call, ret>>
       ELSE LiveComputerMove("pvc_top")
    /\ UNCHANGED <<first, choice>>

NextLive ==
    \/ RunSetup
    \/ PvpTop
    \/ LivePvpTurn1
    \/ PvpMid
    \/ LivePvpTurn2
    \/ LivePvcFirst
    \/ PvcTop
    \/ LivePvcHuman
    \/ LivePvcMid

SpecLive == Init /\ [][NextLive]_vars /\ WF_vars(NextLive)

\* C17: with every prompt answered by a legal move, run reaches "Game over";
\* an iteration of a turn loop that ends without a break has applied a move,
\* each applied move adds one disc, and at most 60 moves are applied.
C17_GameTerminates ==
    /\ [](nmoves <= BOARD_LENGTH * BOARD_LENGTH - 4)
    /\ [](pc # "start" => Cardinality(white \cup black) = 4 + nmoves)
    /\ [][(pc \in {"pvp_turn2", "pvc_mid"} /\ pc' \in {"pvp_top", "pvc_top"})
             => nmoves' = nmoves + 1]_vars
    /\ <>(pc = "over")

\* C17 witness: "Game over" after more than 20 applied moves.
C17_Witness ==
    /\ pc = "over"
    /\ nmoves > 20

(***************************************************************************)
(* Game::run again (Spec): what the turn loops pass to applyMove, and what *)
(* applyMove does to the occupied squares.                                 *)
(***************************************************************************)
\* C18: every applyMove of run gets a position for which checkValidMove is
\* true for the moving player on the board of the call; the minimax of run is
\* called on a board on which Black has a valid move, and its {-1, -1} is
\* never passed to applyMove.
C18_ApplyMovePrecondition ==
    /\ call.op = "applyMove" =>
           /\ call.pos # NoMove
           /\ checkValidMove(call.white, call.black, call.pos, call.player)
    /\ ret.op = "minimax" =>
           /\ hasValidMoves(call.white, call.black, "B")
           /\ ret.move # NoMove
    /\ pc # "undefined"

\* C18 witness: the computer has moved after a human move, with the move
\* minimax returned.
C18_Witness ==
    /\ ret.op = "minimax"
    /\ call.op = "applyMove"
    /\ call.player = "B"
    /\ call.pos = ret.move
    /\ first
    /\ pc = "pvc_top"

\* The squares holding a disc of either colour.
Occupied == white \cup black

\* d4, e4, d5 and e5.
CentreSquares ==
    { IndexOf(<<r, c>>) : r, c \in (BOARD_LENGTH \div 2 - 1) .. (BOARD_LENGTH \div 2) }

\* C19: an occupied square stays occupied, an applied move adds its target
\* square and no other to white | black, after k applied moves there are 4 + k
\* discs, and the four centre squares are occupied from setupInitialPos on.
C19_OccupancyGrows ==
    /\ [][Occupied \subseteq Occupied']_vars
    /\ [][nmoves' = nmoves + 1 =>
             /\ IndexOf(call'.pos) \notin Occupied
             /\ Occupied' = Occupied \cup {IndexOf(call'.pos)}]_vars
    /\ [](pc # "start" =>
             /\ Cardinality(Occupied) = 4 + nmoves
             /\ CentreSquares \subseteq Occupied)

\* C19 witness: nine moves applied, the last of them flipping two discs or
\* more.
C19_Witness ==
    /\ nmoves >= 9
    /\ call.op = "applyMove"
    /\ Cardinality(IF call.player = "W" THEN call.black \ black
                                       ELSE call.white \ white) >= 2

(***************************************************************************)
(* minimax again (SpecSearch): whose evaluation a terminal node gets.      *)
(***************************************************************************)
\* The side to move after plies plies of a search started for root.
SideToMove(root, plies) == IF plies % 2 = 0 THEN root ELSE opponent(root)

\* The largest and the smallest of a non-empty set of integers.
Largest(values) == CHOOSE v \in values : \A u \in values : u <= v

Smallest(values) == CHOOSE v \in values : \A u \in values : v <= u

\* The value of the node reached after plies plies of a search started for
\* root: a terminal (depth 0, or no legal move for the side to move) has the
\* evaluation of the side to move at it; an inner node has the largest or the
\* smallest of its children's values, taken without sign change.
RECURSIVE PerspectiveValue(_, _, _, _, _, _)
PerspectiveValue(w, b, root, plies, depth, isMaximizing) ==
    LET mover == SideToMove(root, plies)
        moves == getPossibleMoves(w, b, mover)
        Child(k) == LET new == applyMove(w, b, moves[k], mover)
                    IN  PerspectiveValue(new[1], new[2], root, plies + 1, depth - 1,
                                         ~isMaximizing)
        values == { Child(k) : k \in 1 .. Len(moves) }
    IN  IF depth = 0 \/ Len(moves) = 0
        THEN evaluateBoard(w, b, mover)
        ELSE IF isMaximizing THEN Largest(values) ELSE Smallest(values)

\* C20: in a search started for player P, a terminal after an even number of
\* plies is scored with evaluateBoard(.., P), a terminal after an odd number
\* of plies with evaluateBoard(.., opponent of P), and the max and min nodes
\* compare both kinds of score without sign change.
C20_TerminalPerspective ==
    (ret.op = "minimax" /\ FullWindow) =>
        ret.result.score = PerspectiveValue(white, black, call.player, 0, call.depth,
                                            call.isMaximizing)

\* C20 witness: a search of depth 2 or more for a player with a move after
\* which the opponent has no legal move, on a board the two sides evaluate
\* differently.
C20_Witness ==
    /\ ret.op = "minimax"
    /\ FullWindow
    /\ call.depth >= 2
    /\ \E pos \in Positions :
          /\ checkValidMove(white, black, pos, call.player)
          /\ LET new == applyMove(white, black, pos, call.player)
             IN  /\ ~hasValidMoves(new[1], new[2], opponent(call.player))
                 /\ evaluateBoard(new[1], new[2], call.player)
                       # evaluateBoard(new[1], new[2], opponent(call.player))

====
